---- MODULE Spec2Model ----
(***************************************************************************)
(* Model of the scan orchestration engine of sast-fp-analyzer:             *)
(*   backend/app/routes/scans.py      run_scan and the scan endpoints      *)
(*   backend/app/services/sonarqube.py grouping of findings by file        *)
(*   backend/app/models.py            the mapped columns of the ORM rows   *)
(*                                                                         *)
(* One scan (one key of scan_progress / scan_control) is modelled.  The    *)
(* orchestrator run_scan is a coroutine on the event loop: the code        *)
(* between two awaits runs without interleaving, so every action below is  *)
(* one such segment, from the return of an await to the next await (or to  *)
(* the return of run_scan).  The request handlers contain no await and are *)
(* one action each.                                                        *)
(***************************************************************************)
EXTENDS Integers, Sequences, FiniteSets, TLC

VARIABLES
    configuration,   \* the Configuration row the scan refers to
    defaults,        \* the DefaultSettings row, or NoRow
    scan,            \* the ScanResult row of the scan, or NoRow
    analyses,        \* the VulnerabilityAnalysis rows of the scan, in insertion order
    scan_progress,   \* scan_progress[scan_id], or Absent
    scan_control,    \* scan_control[scan_id], or Absent
    frame,           \* the local variables of run_scan and its position (pc)
    ghost,           \* history: committed status changes and external calls made
    llm,             \* one call of LLMService.analyze_vulnerability, step by step
    pager            \* one call of SonarQubeService.fetch_all_vulnerabilities, page by page

vars ==
    <<configuration, defaults, scan, analyses, scan_progress, scan_control, frame, ghost,
      llm, pager>>

-----------------------------------------------------------------------------
(* Bounds of the model *)

\* longest list of findings the finding provider returns
MaxFindings == 3

\* most per-configuration fields left empty in the Configuration row
MaxEmptyFields == 1

-----------------------------------------------------------------------------
(* Values *)

\* Python None and the empty string: both are falsy in `x or y` and `not x`
None == "None"

Truthy(x) == x # None

\* Python `a or b`
Or(a, b) == IF Truthy(a) THEN a ELSE b

NoRow == [row |-> FALSE]

Absent == [absent |-> TRUE]

-----------------------------------------------------------------------------
(* Configuration and default settings (models.py) *)

\* the per-configuration columns that run_scan validates
ConfigFields ==
    {"llm_url", "llm_model", "sonarqube_api_key", "sonarqube_project_key",
     "github_owner", "github_api_key"}

\* the DefaultSettings columns that run_scan validates
DefaultFields ==
    {"llm_url", "llm_model", "sonarqube_api_key", "github_owner", "github_api_key"}

\* the mapped attributes of class Configuration
ConfigurationColumns ==
    {"id", "name", "llm_url", "llm_model", "llm_api_key", "sonarqube_url",
     "sonarqube_api_key", "sonarqube_project_key", "github_owner", "github_repo",
     "github_api_key", "github_branch", "is_active", "created_at", "updated_at",
     "scan_results"}

\* Configuration rows: every validated column is set ("c") or empty (None)
ConfigurationRows ==
    {c \in [ConfigFields -> {None, "c"}] :
        Cardinality({k \in ConfigFields : c[k] = None}) <= MaxEmptyFields}

\* DefaultSettings: no row, a row with every column empty, a row with every column set
DefaultSettingsRows ==
    {NoRow, [k \in DefaultFields |-> None], [k \in DefaultFields |-> "d"]}

\* getattr(config, name, None)
GetAttr(config, name) ==
    IF name \in ConfigurationColumns /\ name \in DOMAIN config THEN config[name] ELSE None

\* defaults.<name> if defaults else None
DefaultOf(dflt, name) == IF dflt # NoRow THEN dflt[name] ELSE None

get_merged_config_values(config, dflt) ==
    [llm_url               |-> Or(config["llm_url"], DefaultOf(dflt, "llm_url")),
     llm_model             |-> Or(config["llm_model"], DefaultOf(dflt, "llm_model")),
     sonarqube_api_key     |-> Or(config["sonarqube_api_key"], DefaultOf(dflt, "sonarqube_api_key")),
     sonarqube_project_key |-> config["sonarqube_project_key"],
     sonarqube_project_name |-> GetAttr(config, "sonarqube_project_name"),
     github_owner          |-> Or(config["github_owner"], DefaultOf(dflt, "github_owner")),
     github_api_key        |-> Or(config["github_api_key"], DefaultOf(dflt, "github_api_key"))]

\* a one-element list when the condition holds, else the empty list
Missing(cond, label) == IF cond THEN <<label>> ELSE <<>>

\* mutant of missing_fields: the GitHub token is not validated
missing_fields_no_github_key(merged) ==
       Missing(~Truthy(merged.llm_url), "LLM URL")
    \o Missing(~Truthy(merged.llm_model), "LLM Model")
    \o Missing(~Truthy(merged.sonarqube_api_key), "SonarQube API Key")
    \o Missing(~Truthy(merged.sonarqube_project_key) /\ ~Truthy(merged.sonarqube_project_name),
               "SonarQube Project Key or Project Name")
    \o Missing(~Truthy(merged.github_owner), "GitHub Owner")

\* the list missing_fields that run_scan builds from the merged values
missing_fields(merged) ==
       Missing(~Truthy(merged.llm_url), "LLM URL")
    \o Missing(~Truthy(merged.llm_model), "LLM Model")
    \o Missing(~Truthy(merged.sonarqube_api_key), "SonarQube API Key")
    \o Missing(~Truthy(merged.sonarqube_project_key) /\ ~Truthy(merged.sonarqube_project_name),
               "SonarQube Project Key or Project Name")
    \o Missing(~Truthy(merged.github_owner), "GitHub Owner")
    \o Missing(~Truthy(merged.github_api_key), "GitHub API Key")

\* SonarQubeService.resolve_project_key; lookup is the answer of the name search
resolve_project_key(project_key, project_name, lookup) ==
    IF Truthy(project_key) THEN project_key
    ELSE IF Truthy(project_name) THEN lookup
    ELSE None

-----------------------------------------------------------------------------
(* Findings (sonarqube.py) *)

\* the "component" of a finding, "<project>:<path>", as <<project, path>>
Components == {<<"proj", "a.py">>, <<"b.py">>, <<"proj", "">>}

\* an issue as fetch_all_vulnerabilities returns it: issue_type is added to it
VulnerabilityIssue(k, c) ==
    [key |-> k, component |-> c, type |-> "VULNERABILITY", issue_type |-> "VULNERABILITY"]

\* a hotspot as fetch_all_security_hotspots transforms it
HotspotIssue(k, c) ==
    [key |-> k, component |-> c, type |-> "SECURITY_HOTSPOT",
     issue_type |-> "SECURITY_HOTSPOT", securityCategory |-> "xss",
     security_category |-> "xss"]

\* the lists fetch_all_vulnerabilities can return: issues first, then hotspots
FetchedLists ==
    UNION {
        {[i \in 1..n |-> IF i <= v THEN VulnerabilityIssue(i, cs[i]) ELSE HotspotIssue(i, cs[i])] :
            v \in 0..n, cs \in [1..n -> Components]} :
        n \in 0..MaxFindings}

\* dict.get(key, default)
Get(d, k, default) == IF k \in DOMAIN d THEN d[k] ELSE default

\* raw_component.split(":", 1)[1] if ":" in raw_component else raw_component
FilePathOf(issue) ==
    IF Len(issue.component) >= 2 THEN issue.component[2] ELSE issue.component[1]

\* the entry group_vulnerabilities_by_file appends for one issue
vulnerability_info(issue) ==
    LET issue_type == Get(issue, "type", "VULNERABILITY")
        base == [key |-> issue.key, type |-> issue_type]
    IN  IF issue_type = "SECURITY_HOTSPOT"
        THEN [key |-> issue.key, type |-> issue_type,
              securityCategory |-> Get(issue, "securityCategory", None)]
        ELSE base

\* mutant of AppendToGroup: the entry is put in front of the list of its file
PrependToGroup(grouped, file_path, info) ==
    IF \E i \in 1..Len(grouped) : grouped[i].file_path = file_path
    THEN [i \in 1..Len(grouped) |->
            IF grouped[i].file_path = file_path
            THEN [grouped[i] EXCEPT !.vulnerabilities = <<info>> \o @]
            ELSE grouped[i]]
    ELSE Append(grouped, [file_path |-> file_path, vulnerabilities |-> <<info>>])

\* grouped[file_path].append(info), keeping the insertion order of the keys
AppendToGroup(grouped, file_path, info) ==
    IF \E i \in 1..Len(grouped) : grouped[i].file_path = file_path
    THEN [i \in 1..Len(grouped) |->
            IF grouped[i].file_path = file_path
            THEN [grouped[i] EXCEPT !.vulnerabilities = Append(@, info)]
            ELSE grouped[i]]
    ELSE Append(grouped, [file_path |-> file_path, vulnerabilities |-> <<info>>])

RECURSIVE GroupFrom(_, _, _)
\* the loop of group_vulnerabilities_by_file from issue i on
GroupFrom(issues, i, grouped) ==
    IF i > Len(issues) THEN grouped
    ELSE IF FilePathOf(issues[i]) = ""
         THEN GroupFrom(issues, i + 1, grouped)
         ELSE GroupFrom(issues, i + 1,
                        AppendToGroup(grouped, FilePathOf(issues[i]), vulnerability_info(issues[i])))

\* SonarQubeService.group_vulnerabilities_by_file: the dict as a list of its items
group_vulnerabilities_by_file(issues) == GroupFrom(issues, 1, <<>>)

RECURSIVE Flatten(_)
\* the findings of the grouped work list in processing order
Flatten(grouped) ==
    IF grouped = <<>> THEN <<>>
    ELSE Head(grouped).vulnerabilities \o Flatten(Tail(grouped))

-----------------------------------------------------------------------------
(* VulnerabilityAnalysis rows (models.py) *)

\* the mapped attributes of class VulnerabilityAnalysis
VulnerabilityAnalysisColumns ==
    {"id", "scan_result_id", "file_path", "line_number", "vulnerability_type",
     "original_message", "severity", "sonarqube_key", "triage", "confidence",
     "short_reason", "detailed_explanation", "fix_suggestion", "severity_override",
     "source_code_snippet", "raw_llm_response", "prompt_sent", "analyzed_at",
     "scan_result"}

\* the keyword arguments of the three VulnerabilityAnalysis(...) calls of run_scan
SkippedKwargs ==
    <<"scan_result_id", "file_path", "line_number", "vulnerability_type",
      "original_message", "severity", "issue_type", "security_category",
      "sonarqube_key", "triage", "confidence", "short_reason">>

ClassifiedKwargs ==
    <<"scan_result_id", "file_path", "line_number", "vulnerability_type",
      "original_message", "severity", "issue_type", "security_category",
      "sonarqube_key", "triage", "confidence", "short_reason",
      "detailed_explanation", "fix_suggestion", "severity_override",
      "source_code_snippet", "raw_llm_response", "prompt_sent">>

ErrorKwargs ==
    <<"scan_result_id", "file_path", "line_number", "vulnerability_type",
      "original_message", "severity", "issue_type", "security_category",
      "sonarqube_key", "triage", "confidence", "short_reason">>

\* mutant of AcceptedKwargs: the model class also declares the two columns
\* database.py adds to the table
AcceptedWithMigratedColumns ==
    VulnerabilityAnalysisColumns \cup {"issue_type", "security_category"}

\* the attributes the declarative constructor accepts: hasattr(cls, k)
AcceptedKwargs == VulnerabilityAnalysisColumns

\* the first keyword the declarative constructor rejects, or None: the
\* constructor raises TypeError("'<k>' is an invalid keyword argument for ...")
InvalidKwarg(kwargs) ==
    IF \A i \in 1..Len(kwargs) : kwargs[i] \in AcceptedKwargs THEN None
    ELSE kwargs[CHOOSE i \in 1..Len(kwargs) :
                    /\ kwargs[i] \notin AcceptedKwargs
                    /\ \A j \in 1..(i - 1) : kwargs[j] \in AcceptedKwargs]

\* str(e) of that TypeError
TypeErrorText(k) == <<"invalid keyword argument for VulnerabilityAnalysis", k>>

\* the row built from a finding of the work list and a verdict
AnalysisRow(file_path, vuln, triage, confidence, short_reason) ==
    [file_path         |-> file_path,
     sonarqube_key     |-> Get(vuln, "key", "unknown"),
     issue_type        |-> Get(vuln, "issue_type", "VULNERABILITY"),
     security_category |-> Get(vuln, "security_category", None),
     triage            |-> triage,
     confidence        |-> confidence,
     short_reason      |-> short_reason]

-----------------------------------------------------------------------------
(* The state run_scan works on, as one record:                             *)
(*   st.scan, st.analyses, st.scan_progress, st.scan_control : the stores  *)
(*   st.f : the frame of run_scan,  st.g : the history                     *)

\* the ScanResult row start_scan inserts (column defaults of models.py)
NewScanRow ==
    [status |-> "pending", error_message |-> <<>>, scan_completed_at |-> None,
     total_vulnerabilities |-> 0, false_positives |-> 0, true_positives |-> 0,
     needs_review |-> 0]

\* the frame of run_scan before the task runs
InitFrame ==
    [pc |-> "idle", issues |-> <<>>, grouped_vulns |-> <<>>,
     total_vulnerabilities |-> 0, false_positives |-> 0, true_positives |-> 0,
     needs_review |-> 0, processed_vulns |-> 0, progress |-> 0,
     progress_bound |-> FALSE, source_code_cache |-> <<>>, source_code |-> None,
     fi |-> 0, vi |-> 0]

InitGhost ==
    [transitions |-> {}, fetch_all_calls |-> 0, get_file_calls |-> <<>>,
     get_raw_calls |-> <<>>, llm_calls |-> <<>>, classify_exceptions |-> <<>>,
     resumed |-> {}, stop_in_flight |-> {}, get_file_results |-> <<>>,
     stop_while_paused |-> {}]

\* scan.status = new; db.commit()   (every assignment of scan.status in
\* run_scan is committed before the next one)
SetStatus(st, new) ==
    [st EXCEPT !.scan.status = new,
               !.g.transitions = IF st.scan.status # new
                                 THEN @ \cup {<<st.scan.status, new>>} ELSE @]

\* scan_control.get(scan_id, {}).get("action")
ControlAction(control) == IF control = Absent THEN None ELSE control.action

\* the file group and the finding the loops of run_scan are at
CurrentGroup(st) == st.f.grouped_vulns[st.f.fi]

CurrentVuln(st) == CurrentGroup(st).vulnerabilities[st.f.vi]

\* the handler `except Exception as e` around the body of run_scan
OuterExcept(st, e) ==
    LET t == IF st.scan # NoRow
             THEN [SetStatus(st, "failed") EXCEPT !.scan.error_message = e,
                                                  !.scan.scan_completed_at = "now"]
             ELSE st
    IN  [t EXCEPT !.scan_progress = [status |-> "failed", progress |-> 0, message |-> e],
                  !.f.pc = "done"]

\* mutant of CommitFails: the flush writes the row back (an upsert) and run_scan
\* ends as failed
CommitRestoresRow(st) ==
    [st EXCEPT !.scan = [NewScanRow EXCEPT !.status = "failed"], !.f.pc = "done"]

\* db.commit() of a change to the ScanResult row (or of a row that refers to
\* it) after delete_scan removed the row: the flush raises (the UPDATE matches
\* no row, the INSERT has no parent) and leaves the session rolled back, so the
\* query of the outer handler raises as well and run_scan ends through
\* `finally` without another write
CommitFails(st) == [st EXCEPT !.f.pc = "done"]

\* a read of scan.status, expired by the last commit, after delete_scan removed
\* the row: the refresh finds no row and raises, the outer handler reports it
DeletedRead(st) == OuterExcept(st, <<"Instance has been deleted">>)

\* run_scan from its first line to the await of fetch_all_vulnerabilities
RunScanHead(st, config, dflt) ==
    IF config = NoRow
    THEN [st EXCEPT !.scan_progress = [status |-> "failed", progress |-> 0,
                                       message |-> <<"Configuration not found">>],
                    !.f.pc = "done"]
    ELSE
    LET merged  == get_merged_config_values(config, dflt)
        missing == missing_fields(merged)
    IN  IF missing # <<>>
        THEN LET t == IF st.scan # NoRow
                      THEN [SetStatus(st, "failed") EXCEPT
                               !.scan.error_message =
                                   <<"Missing required fields (not set in config or defaults)">> \o missing,
                               !.scan.scan_completed_at = "now"]
                      ELSE st
             IN  [t EXCEPT !.scan_progress = [status |-> "failed", progress |-> 0,
                                              message |-> <<"Missing fields">> \o missing],
                           !.f.pc = "done"]
        ELSE IF st.scan = NoRow
        THEN [st EXCEPT !.f.pc = "done"]
        ELSE
        LET t == [SetStatus(st, "running") EXCEPT
                     !.scan_progress = [status |-> "running", progress |-> 0,
                                        message |-> <<"Starting scan...">>],
                     !.scan_control = [action |-> None]]
            project_key == resolve_project_key(merged.sonarqube_project_key,
                                               merged.sonarqube_project_name, None)
        IN  IF ~Truthy(project_key)
            THEN [SetStatus(t, "failed") EXCEPT
                     !.scan.error_message = <<"Could not resolve SonarQube project">>,
                     !.scan.scan_completed_at = "now",
                     !.scan_progress = [status |-> "failed", progress |-> 0,
                                        message |-> <<"Could not resolve SonarQube project">>],
                     !.f.pc = "done"]
            ELSE [t EXCEPT !.scan_progress.message = <<"Fetching vulnerabilities">>,
                           !.g.fetch_all_calls = @ + 1,
                           !.f.pc = "fetch_all"]

\* the stop branch at a finding boundary
HandleStop(st) ==
    [SetStatus(st, "stopped") EXCEPT
        !.scan.scan_completed_at = "now",
        !.scan.false_positives = st.f.false_positives,
        !.scan.true_positives = st.f.true_positives,
        !.scan.needs_review = st.f.needs_review,
        !.scan_progress = [status |-> "stopped",
                           progress |-> IF st.f.progress_bound THEN st.f.progress ELSE 0,
                           message |-> <<"Scan stopped by user">>],
        !.f.pc = "done"]

\* mutant of PauseIteration: the pause is shown in the snapshot only
PauseIterationNotCommitted(st) ==
    [st EXCEPT
        !.scan_progress.status = "paused",
        !.scan_progress.message = <<"Scan paused">>,
        !.f.pc = "pause_sleep"]

\* one iteration of `while control.get("action") == "pause"`, up to its sleep
PauseIteration(st) ==
    [SetStatus(st, "paused") EXCEPT
        !.scan_progress.status = "paused",
        !.scan_progress.message = <<"Scan paused">>,
        !.f.pc = "pause_sleep"]

\* mutant of ResumeIfPaused: running is committed, the snapshot is not updated
ResumeIfPausedSnapshotStale(st) ==
    IF st.scan.status = "paused"
    THEN [SetStatus(st, "running") EXCEPT
             !.g.resumed = @ \cup {st.f.processed_vulns + 1}]
    ELSE st

\* mutant of ResumeIfPaused: the status is left as the pause loop set it
ResumeIfPausedSkipped(st) == st

\* `if scan.status == "paused"` after the pause loop
ResumeIfPaused(st) ==
    IF st.scan.status = "paused"
    THEN [SetStatus(st, "running") EXCEPT
             !.scan_progress.status = "running",
             !.g.resumed = @ \cup {st.f.processed_vulns + 1}]
    ELSE st

\* int((processed_vulns / total_vulnerabilities) * 100); the float product
\* equals the integer quotient for every total up to 49
ProgressOf(processed, total) == (processed * 100) \div total

\* the final update after the loops
Finalize(st) ==
    IF st.scan = NoRow THEN CommitFails(st) ELSE
    [SetStatus(st, "completed") EXCEPT
        !.scan.scan_completed_at = "now",
        !.scan.false_positives = st.f.false_positives,
        !.scan.true_positives = st.f.true_positives,
        !.scan.needs_review = st.f.needs_review,
        !.scan_progress = [status |-> "completed", progress |-> 100,
                           message |-> <<"Scan completed">>],
        !.scan_control = Absent,
        !.f.pc = "done"]

-----------------------------------------------------------------------------
(* The loops of run_scan *)

RECURSIVE Boundary(_)

\* the head of the outer loop for the file group st.f.fi: the cache lookup
EnterFile(st) ==
    LET file_path == CurrentGroup(st).file_path
    IN  IF file_path \in DOMAIN st.f.source_code_cache
        THEN Boundary([st EXCEPT !.f.source_code = st.f.source_code_cache[file_path],
                                 !.f.vi = 1])
        ELSE [st EXCEPT !.g.get_file_calls = Append(@, file_path),
                        !.f.pc = "get_file"]

\* the outer loop moves to the next file group, or the loops are over
NextFile(st) ==
    IF st.f.fi < Len(st.f.grouped_vulns)
    THEN EnterFile([st EXCEPT !.f.fi = @ + 1])
    ELSE Finalize(st)

\* the inner loop moves to the next finding of the file, or to the next file
NextFinding(st) ==
    IF st.f.vi < Len(CurrentGroup(st).vulnerabilities)
    THEN Boundary([st EXCEPT !.f.vi = @ + 1])
    ELSE NextFile(st)

\* mutant of SkipNoSource: the finding is skipped with a bare `continue`
SkipNoSourceUncounted(st) == NextFinding(st)

\* `if not source_code:` the finding is recorded for review and the loop continues
SkipNoSource(st) ==
    IF InvalidKwarg(SkippedKwargs) # None
    THEN OuterExcept(st, TypeErrorText(InvalidKwarg(SkippedKwargs)))
    ELSE IF st.scan = NoRow THEN CommitFails(st)
    ELSE NextFinding(
            [st EXCEPT !.analyses = Append(@, AnalysisRow(CurrentGroup(st).file_path,
                                                          CurrentVuln(st),
                                                          "needs_human_review", "0.0",
                                                          <<"Could not fetch source code from GitHub">>)),
                       !.f.needs_review = @ + 1])

\* a finding is taken up: the progress update, then the skip or the classifier call
BeginFinding(st) ==
    LET processed == st.f.processed_vulns + 1
        progress  == ProgressOf(processed, st.f.total_vulnerabilities)
        t == [st EXCEPT !.f.processed_vulns = processed,
                        !.f.progress = progress,
                        !.f.progress_bound = TRUE,
                        !.scan_progress.progress = progress,
                        !.scan_progress.message = <<"Analyzing vulnerability">>]
    IN  IF st.f.total_vulnerabilities = 0
        THEN OuterExcept([st EXCEPT !.f.processed_vulns = processed],
                         <<"division by zero">>)
        ELSE IF ~Truthy(t.f.source_code)
        THEN SkipNoSource(t)
        ELSE [t EXCEPT !.g.llm_calls = Append(@, Get(CurrentVuln(t), "key", "unknown")),
                       !.f.pc = "analyze"]

\* mutant of Boundary: the stop branch does not return, the finding is taken up
BoundaryStopFallsThrough(st) ==
    LET action == ControlAction(st.scan_control)
    IN  IF st.scan = NoRow
        THEN IF action \in {"stop", "pause"} THEN CommitFails(st) ELSE DeletedRead(st)
        ELSE IF action = "stop" THEN BeginFinding([HandleStop(st) EXCEPT !.f.pc = st.f.pc])
        ELSE IF action = "pause" THEN PauseIteration(st)
        ELSE BeginFinding(ResumeIfPaused(st))

\* the control check at the head of the inner loop
Boundary(st) ==
    LET action == ControlAction(st.scan_control)
    IN  IF st.scan = NoRow
        THEN IF action \in {"stop", "pause"} THEN CommitFails(st) ELSE DeletedRead(st)
        ELSE IF action = "stop" THEN HandleStop(st)
        ELSE IF action = "pause" THEN PauseIteration(st)
        ELSE BeginFinding(ResumeIfPaused(st))

\* mutant of AfterPauseSleep: control is not read again after the sleep
AfterPauseSleepControlNotReread(st) ==
    IF st.scan = NoRow THEN CommitFails(st) ELSE PauseIteration(st)

\* the pause loop after its sleep: control is read again
AfterPauseSleep(st) ==
    IF st.scan = NoRow
    THEN IF ControlAction(st.scan_control) = "pause" THEN CommitFails(st) ELSE DeletedRead(st)
    ELSE IF ControlAction(st.scan_control) = "pause"
    THEN PauseIteration(st)
    ELSE BeginFinding(ResumeIfPaused(st))

\* the handler `except Exception as e` around the classification of a finding
AnalysisError(st, e) ==
    IF InvalidKwarg(ErrorKwargs) # None
    THEN OuterExcept(st, TypeErrorText(InvalidKwarg(ErrorKwargs)))
    ELSE IF st.scan = NoRow THEN CommitFails(st)
    ELSE [st EXCEPT !.analyses = Append(@, AnalysisRow(CurrentGroup(st).file_path,
                                                       CurrentVuln(st),
                                                       "needs_human_review", "0.0",
                                                       <<"Analysis error">> \o e)),
                    !.f.needs_review = @ + 1,
                    !.f.pc = "delay"]

\* the counter the verdict of the classifier increments
CountTriage(f, triage) ==
    IF triage = "false_positive" THEN [f EXCEPT !.false_positives = @ + 1]
    ELSE IF triage = "true_positive" THEN [f EXCEPT !.true_positives = @ + 1]
    ELSE [f EXCEPT !.needs_review = @ + 1]

\* the try block after analyze_vulnerability has returned result
Classified(st, result) ==
    LET t == [st EXCEPT !.f = CountTriage(@, Get(result, "triage", "needs_human_review"))]
    IN  IF InvalidKwarg(ClassifiedKwargs) # None
        THEN AnalysisError([t EXCEPT !.g.classify_exceptions =
                                         Append(@, Get(CurrentVuln(st), "key", "unknown"))],
                           TypeErrorText(InvalidKwarg(ClassifiedKwargs)))
        ELSE IF st.scan = NoRow THEN CommitFails(t)
        ELSE [t EXCEPT !.analyses = Append(@, AnalysisRow(CurrentGroup(st).file_path,
                                                          CurrentVuln(st),
                                                          Get(result, "triage", None),
                                                          Get(result, "confidence", None),
                                                          Get(result, "short_reason", <<>>))),
                       !.f.pc = "delay"]

\* mutant of StoreTotal: the total is never written to the ScanResult row
StoreTotalSkipped(st, total_vulnerabilities) == st

\* scan.total_vulnerabilities = total_vulnerabilities; db.commit()
StoreTotal(st, total_vulnerabilities) ==
    [st EXCEPT !.scan.total_vulnerabilities = total_vulnerabilities]

\* run_scan after fetch_all_vulnerabilities has returned issues
AfterFetch(st, issues) ==
    IF st.scan = NoRow THEN CommitFails(st)
    ELSE IF issues = <<>>
    THEN [SetStatus(st, "completed") EXCEPT
             !.scan.scan_completed_at = "now",
             !.scan.total_vulnerabilities = 0,
             !.scan_progress = [status |-> "completed", progress |-> 100,
                                message |-> <<"No vulnerabilities or security hotspots found">>],
             !.f.issues = issues,
             !.f.pc = "done"]
    ELSE NextFile(
            [StoreTotal(st, Len(issues)) EXCEPT
                       !.scan_progress.message = <<"Found vulnerabilities">>,
                       !.f.issues = issues,
                       !.f.grouped_vulns = group_vulnerabilities_by_file(issues),
                       !.f.total_vulnerabilities = Len(issues),
                       !.f.false_positives = 0,
                       !.f.true_positives = 0,
                       !.f.needs_review = 0,
                       !.f.processed_vulns = 0,
                       !.f.source_code_cache = <<>>,
                       !.f.fi = 0])

\* mutant of AfterGetFile: the raw fetch is made whatever the first fetch returned
AfterGetFileAlwaysRaw(st, source_code) ==
    [st EXCEPT !.g.get_file_results = Append(@, source_code),
               !.g.get_raw_calls = Append(@, CurrentGroup(st).file_path),
               !.f.pc = "get_raw"]

\* run_scan after get_file_content has returned source_code
AfterGetFile(st, source_code) ==
    IF ~Truthy(source_code)
    THEN [st EXCEPT !.g.get_file_results = Append(@, source_code),
                    !.g.get_raw_calls = Append(@, CurrentGroup(st).file_path),
                    !.f.pc = "get_raw"]
    ELSE Boundary([st EXCEPT !.g.get_file_results = Append(@, source_code),
                             !.f.source_code = source_code,
                             !.f.source_code_cache = (CurrentGroup(st).file_path :> source_code) @@ @,
                             !.f.vi = 1])

\* run_scan after get_file_content_raw has returned source_code
AfterGetRaw(st, source_code) ==
    Boundary([st EXCEPT !.f.source_code = source_code,
                        !.f.source_code_cache = (CurrentGroup(st).file_path :> source_code) @@ @,
                        !.f.vi = 1])

-----------------------------------------------------------------------------
(* What the collaborators can answer *)

\* get_file_content / get_file_content_raw: the text of the file, or None
SourceAnswers == {None, "text"}

\* str(e) of an exception raised by the HTTP client of the finding provider:
\* the text of an HTTP status error, or the empty text of a timeout
ExceptionTexts == {<<"HTTP error">>, <<>>}

\* the verdicts of analyze_vulnerability: a dict, with or without "triage"
ClassifierResults ==
    {[triage |-> t, confidence |-> "0.9", short_reason |-> <<"verdict">>] :
        t \in {"false_positive", "true_positive", "needs_human_review", "unsure"}}
    \cup {[confidence |-> "0.9", short_reason |-> <<"verdict">>]}

-----------------------------------------------------------------------------
(* Actions *)

State ==
    [scan |-> scan, analyses |-> analyses, scan_progress |-> scan_progress,
     scan_control |-> scan_control, f |-> frame, g |-> ghost]

Apply(t) ==
    /\ scan' = t.scan
    /\ analyses' = t.analyses
    /\ scan_progress' = t.scan_progress
    /\ scan_control' = t.scan_control
    /\ frame' = t.f
    /\ ghost' = t.g
    /\ UNCHANGED <<pager, llm, configuration, defaults>>

Init ==
    /\ configuration \in ConfigurationRows
    /\ defaults \in DefaultSettingsRows
    /\ scan = NoRow
    /\ analyses = <<>>
    /\ scan_progress = Absent
    /\ scan_control = Absent
    /\ frame = InitFrame
    /\ ghost = InitGhost
    /\ llm = [pc |-> "idle"]
    /\ pager = [pc |-> "idle"]

\* POST /scans/: the row is inserted as pending and run_scan is queued
start_scan ==
    /\ frame.pc = "idle"
    /\ configuration # NoRow
    /\ scan' = NewScanRow
    /\ frame' = [frame EXCEPT !.pc = "queued"]
    /\ UNCHANGED <<pager, llm, configuration, defaults, analyses, scan_progress, scan_control, ghost>>

\* the background task starts
RunScanStarts ==
    /\ frame.pc = "queued"
    /\ Apply(RunScanHead(State, configuration, defaults))

\* fetch_all_vulnerabilities returns a list, or raises (an HTTP error of the issue search)
FetchAllReturns ==
    /\ frame.pc = "fetch_all"
    /\ \/ \E issues \in FetchedLists : Apply(AfterFetch(State, issues))
       \/ \E e \in ExceptionTexts : Apply(OuterExcept(State, e))

get_file_content_returns ==
    /\ frame.pc = "get_file"
    /\ \E source_code \in SourceAnswers : Apply(AfterGetFile(State, source_code))

get_file_content_raw_returns ==
    /\ frame.pc = "get_raw"
    /\ \E source_code \in SourceAnswers : Apply(AfterGetRaw(State, source_code))

analyze_vulnerability_returns ==
    /\ frame.pc = "analyze"
    /\ \E result \in ClassifierResults : Apply(Classified(State, result))

\* asyncio.sleep returns: in the pause loop, or after a classified finding
SleepReturns ==
    /\ frame.pc \in {"pause_sleep", "delay"}
    /\ IF frame.pc = "pause_sleep"
       THEN Apply(AfterPauseSleep(State))
       ELSE Apply(NextFinding(State))

\* mutant of pause_scan: the handler also commits the paused status itself
pause_scan_commits_status ==
    /\ scan # NoRow
    /\ IF scan.status \in {"running", "pending"}
       THEN /\ scan_control' = [action |-> "pause"]
            /\ scan' = [scan EXCEPT !.status = "paused"]
       ELSE UNCHANGED <<scan_control, scan>>
    /\ UNCHANGED <<pager, llm, configuration, defaults, analyses, scan_progress, frame, ghost>>

\* POST /scans/{id}/pause
pause_scan ==
    /\ scan # NoRow
    /\ IF scan.status \in {"running", "pending"}
       THEN scan_control' = [action |-> "pause"]
       ELSE UNCHANGED scan_control
    /\ UNCHANGED <<pager, llm, configuration, defaults, scan, analyses, scan_progress, frame, ghost>>

\* mutant of resume_scan: an accepted resume also commits the running status
resume_scan_commits_status ==
    /\ scan # NoRow
    /\ IF scan.status # "paused" /\ ControlAction(scan_control) # "pause"
       THEN UNCHANGED <<scan_control, scan>>
       ELSE /\ scan_control' = [action |-> None]
            /\ scan' = [scan EXCEPT !.status = "running"]
    /\ UNCHANGED <<pager, llm, configuration, defaults, analyses, scan_progress, frame, ghost>>

\* POST /scans/{id}/resume
resume_scan ==
    /\ scan # NoRow
    /\ IF scan.status # "paused" /\ ControlAction(scan_control) # "pause"
       THEN UNCHANGED scan_control
       ELSE scan_control' = [action |-> None]
    /\ UNCHANGED <<pager, llm, configuration, defaults, scan, analyses, scan_progress, frame, ghost>>

\* POST /scans/{id}/stop
stop_scan ==
    /\ scan # NoRow
    /\ IF scan.status \in {"running", "pending", "paused"}
       THEN /\ scan_control' = [action |-> "stop"]
            /\ ghost' = IF frame.pc = "analyze"
                        THEN [ghost EXCEPT !.stop_in_flight = @ \cup {frame.processed_vulns}]
                        ELSE IF scan.status = "paused"
                        THEN [ghost EXCEPT !.stop_while_paused = @ \cup {frame.processed_vulns}]
                        ELSE ghost
       ELSE UNCHANGED <<scan_control, ghost>>
    /\ UNCHANGED <<pager, llm, configuration, defaults, scan, analyses, scan_progress, frame>>

\* GET /scans/{id}/status: the response, which changes no state
get_scan_status ==
    IF scan = NoRow THEN [status_code |-> 404]
    ELSE IF scan_progress # Absent
    THEN [status_code |-> 200,
          status |-> Get(scan_progress, "status", scan.status),
          progress |-> Get(scan_progress, "progress", None),
          message |-> Get(scan_progress, "message", None)]
    ELSE [status_code |-> 200, status |-> scan.status, progress |-> None,
          message |-> scan.error_message]

\* DELETE /scans/{id}: the analyses of the scan and the scan row are deleted
delete_scan ==
    /\ scan # NoRow
    /\ scan' = NoRow
    /\ analyses' = <<>>
    /\ UNCHANGED <<pager, llm, configuration, defaults, scan_progress, scan_control, frame, ghost>>

\* DELETE /configurations/{id}: with a scan of the configuration in the store
\* the flush sets scan_results.configuration_id (nullable=False) to NULL and
\* the commit fails; without one the row is deleted
delete_configuration ==
    /\ configuration # NoRow
    /\ IF scan # NoRow
       THEN UNCHANGED configuration
       ELSE configuration' = NoRow
    /\ UNCHANGED <<pager, llm, defaults, scan, analyses, scan_progress, scan_control, frame, ghost>>

Next ==
    \/ start_scan
    \/ RunScanStarts
    \/ FetchAllReturns
    \/ get_file_content_returns
    \/ get_file_content_raw_returns
    \/ analyze_vulnerability_returns
    \/ SleepReturns
    \/ pause_scan
    \/ resume_scan
    \/ stop_scan
    \/ delete_scan
    \/ delete_configuration

Spec == Init /\ [][Next]_vars

-----------------------------------------------------------------------------
(* Properties *)

Terminal == {"completed", "stopped", "failed"}

\* the three verdict counters of the ScanResult row
DurableSum == scan.false_positives + scan.true_positives + scan.needs_review

\* the three verdict counters run_scan accumulates
RunningSum == frame.false_positives + frame.true_positives + frame.needs_review

\* the fetched findings that grouping drops for an empty path
Dropped(issues) == Cardinality({i \in 1..Len(issues) : FilePathOf(issues[i]) = ""})

C2_SumAtMostTotal ==
    scan # NoRow =>
        /\ DurableSum <= scan.total_vulnerabilities
        /\ RunningSum <= scan.total_vulnerabilities
        /\ RunningSum <= frame.total_vulnerabilities

\* a verdict has been counted
C2_Witness == scan # NoRow /\ RunningSum > 0 /\ scan.total_vulnerabilities > 0

\* the elements of a list
Range(seq) == {seq[i] : i \in 1..Len(seq)}

RECURSIVE WorkItems(_)
\* the grouped work list in processing order, each finding with its file path
WorkItems(grouped) ==
    IF grouped = <<>> THEN <<>>
    ELSE [i \in 1..Len(Head(grouped).vulnerabilities) |->
            [file_path |-> Head(grouped).file_path,
             key |-> Head(grouped).vulnerabilities[i].key]]
         \o WorkItems(Tail(grouped))

\* the VulnerabilityAnalysis rows written for the finding with this key
RowsOf(key) == {i \in 1..Len(analyses) : analyses[i].sonarqube_key = key}

\* the findings run_scan is through with: those taken up, less the one whose
\* classification is in flight
FindingsDone ==
    IF frame.pc = "analyze" THEN frame.processed_vulns - 1 ELSE frame.processed_vulns

\* C3: pause and resume neither lose nor duplicate a finding: a scan resumed at
\* finding i takes up finding i, which gets exactly one VulnerabilityAnalysis row
\* (never zero, never two), and a completed scan has exactly one row for every
\* finding of the grouped work list.
C3_ResumedFindingHasOneRow ==
    LET items == WorkItems(frame.grouped_vulns)
    IN  /\ \A i \in 1..Len(items) : Cardinality(RowsOf(items[i].key)) <= 1
        /\ \A i \in ghost.resumed :
              i <= FindingsDone => Cardinality(RowsOf(items[i].key)) = 1
        /\ (scan # NoRow /\ scan.status = "completed")
              => \A i \in 1..Len(items) : Cardinality(RowsOf(items[i].key)) = 1

\* C4: once a stop is honored the status is stopped, the counters of the
\* ScanResult row are the ones accumulated so far and add up to the number of
\* rows written, and from then on no row is written and nothing of the
\* ScanResult row or of the running counters changes (until delete_scan
\* removes the scan with its rows).
C4_StopFreezes ==
    /\ [](scan # NoRow =>
            /\ (scan_progress # Absent /\ scan_progress.status = "stopped")
                  => scan.status = "stopped"
            /\ scan.status = "stopped" =>
                  /\ scan.false_positives = frame.false_positives
                  /\ scan.true_positives = frame.true_positives
                  /\ scan.needs_review = frame.needs_review
                  /\ DurableSum = Len(analyses)
                  /\ frame.pc = "done")
    /\ [][(scan # NoRow /\ scan.status = "stopped")
            => \/ scan' = scan /\ analyses' = analyses /\ frame' = frame
               \/ scan' = NoRow /\ analyses' = <<>> /\ frame' = frame]_vars

\* a stop has been honored for a scan with findings
C4_Witness ==
    scan # NoRow /\ scan.status = "stopped" /\ scan.total_vulnerabilities > 0

\* C5: every finding run_scan is through with (skipped, classified or errored)
\* has added exactly one row and exactly one to the counters, so the number of
\* rows equals the sum of the counters equals the number of findings processed,
\* and the live progress is floor(processed * 100 / total).
C5_OneRowAndOneCountPerFinding ==
    /\ Len(analyses) = FindingsDone
    /\ RunningSum = FindingsDone
    /\ (scan_progress # Absent /\ scan_progress.status = "running"
            /\ frame.processed_vulns > 0)
          => scan_progress.progress
                = (frame.processed_vulns * 100) \div frame.total_vulnerabilities

\* C6: when both fetches of a file returned no text, every finding of the file
\* that run_scan has taken up has exactly one row, with triage
\* needs_human_review and confidence 0.0, the classifier was not called for it,
\* and the scan has not failed.
C6_AbsentSourceYieldsReviewRow ==
    LET items == WorkItems(frame.grouped_vulns)
    IN  \A i \in 1..frame.processed_vulns :
            (/\ items[i].file_path \in DOMAIN frame.source_code_cache
             /\ ~Truthy(frame.source_code_cache[items[i].file_path]))
            => /\ Cardinality(RowsOf(items[i].key)) = 1
               /\ \A r \in RowsOf(items[i].key) :
                     /\ analyses[r].triage = "needs_human_review"
                     /\ analyses[r].confidence = "0.0"
               /\ items[i].key \notin Range(ghost.llm_calls)
               /\ scan # NoRow => scan.status # "failed"

\* C7: an exception raised while a finding is classified does not abort the scan:
\* the scan is not failed, the finding has one row with triage
\* needs_human_review whose reason carries the exception text, and
\* needs_review was incremented.
C7_ClassifyExceptionDoesNotAbort ==
    \A key \in Range(ghost.classify_exceptions) :
        /\ scan # NoRow => scan.status # "failed"
        /\ Cardinality(RowsOf(key)) = 1
        /\ \A r \in RowsOf(key) :
              /\ analyses[r].triage = "needs_human_review"
              /\ Head(analyses[r].short_reason) = "Analysis error"
        /\ frame.needs_review >= 1

\* the transitions of the status the state machine lists
ListedTransitions ==
    {<<"pending", "running">>, <<"running", "paused">>, <<"paused", "running">>,
     <<"running", "completed">>, <<"running", "failed">>, <<"running", "stopped">>}

\* C8 as stated: the committed status changes only along pending->running,
\* running->paused, paused->running, running->completed, running->failed and
\* running->stopped.
C8_OnlyListedTransitions == ghost.transitions \subseteq ListedTransitions

\* C8 as amended: the committed status changes only along the listed
\* transitions and pending->failed; completed, failed and stopped have no
\* outgoing transition.
C8_ListedOrPendingToFailed ==
    ghost.transitions \subseteq (ListedTransitions \cup {<<"pending", "failed">>})

\* a scan that was paused, resumed and then ended
C8_Witness ==
    /\ <<"running", "paused">> \in ghost.transitions
    /\ <<"paused", "running">> \in ghost.transitions
    /\ scan # NoRow
    /\ scan.status \in Terminal

\* the merged value a label of missing_fields stands for is empty
MergedLacks(label) ==
    LET lacks(k) == ~Truthy(configuration[k]) /\ ~Truthy(DefaultOf(defaults, k))
    IN  CASE label = "LLM URL" -> lacks("llm_url")
          [] label = "LLM Model" -> lacks("llm_model")
          [] label = "SonarQube API Key" -> lacks("sonarqube_api_key")
          [] label = "SonarQube Project Key or Project Name" ->
                ~Truthy(configuration["sonarqube_project_key"])
          [] label = "GitHub Owner" -> lacks("github_owner")
          [] label = "GitHub API Key" -> lacks("github_api_key")

RequiredLabels ==
    {"LLM URL", "LLM Model", "SonarQube API Key",
     "SonarQube Project Key or Project Name", "GitHub Owner", "GitHub API Key"}

\* C9: when the merged configuration lacks the GitHub API key (or any other
\* required field), the scan goes from pending to failed without ever running,
\* its error message lists the field, nothing is fetched or classified and no
\* row is written.
C9_MissingFieldFailsFromPending ==
    \A label \in RequiredLabels :
        (scan # NoRow /\ MergedLacks(label)) =>
            /\ scan.status \in {"pending", "failed"}
            /\ ghost.transitions \subseteq {<<"pending", "failed">>}
            /\ ghost.fetch_all_calls = 0
            /\ ghost.get_file_calls = <<>>
            /\ ghost.get_raw_calls = <<>>
            /\ ghost.llm_calls = <<>>
            /\ analyses = <<>>
            /\ frame.pc = "done" =>
                  /\ scan.status = "failed"
                  /\ label \in Range(scan.error_message)

\* a scan has failed for a missing GitHub API key
C9_Witness ==
    /\ scan # NoRow
    /\ MergedLacks("GitHub API Key")
    /\ scan.status = "failed"
    /\ "GitHub API Key" \in Range(scan.error_message)

\* C10: once the scan is terminal the registry holds no pending control for it:
\* the control read for the scan is none.
C10_TerminalClearsControl ==
    (scan # NoRow /\ scan.status \in Terminal) => ControlAction(scan_control) = None

\* C11: stop is observed only at finding boundaries: a stop accepted while the
\* classification of finding i is in flight does not interrupt it; once the
\* call has returned the finding has its row and its count, and a stopped scan
\* is at a boundary, with a row for every finding it has taken up.
C11_StopWaitsForTheFinding ==
    LET items == WorkItems(frame.grouped_vulns)
    IN  scan # NoRow =>
            /\ \A i \in ghost.stop_in_flight :
                  i <= FindingsDone =>
                      /\ Cardinality(RowsOf(items[i].key)) = 1
                      /\ RunningSum >= i
            /\ scan.status = "stopped" =>
                  /\ frame.pc = "done"
                  /\ Len(analyses) = frame.processed_vulns

\* the source and classifier calls made and the counters accumulated so far
WorkDone ==
    <<analyses, frame.false_positives, frame.true_positives, frame.needs_review,
      frame.processed_vulns, frame.fi, frame.vi,
      ghost.get_file_calls, ghost.get_raw_calls, ghost.llm_calls>>

\* C12: a pause seen at a finding boundary makes the status of the ScanResult
\* row and of the progress snapshot paused; while the status is paused no
\* source or classifier call is made, no row is written and no counter changes;
\* when the orchestrator wakes and the control entry is no longer pause, the
\* status returns to running and the finding the scan was paused at is taken up.
C12_PauseHoldsTheScan ==
    /\ [](scan # NoRow =>
            /\ scan.status = "paused" =>
                  /\ scan_progress.status = "paused"
                  /\ frame.pc = "pause_sleep"
            /\ frame.pc = "pause_sleep" => scan.status = "paused")
    /\ [][(scan # NoRow /\ scan' # NoRow /\ scan.status = "paused") =>
            /\ scan'.status = "paused" => WorkDone' = WorkDone
            /\ frame' # frame =>
                  /\ ControlAction(scan_control) # "pause"
                  /\ <<"paused", "running">> \in ghost'.transitions
                  /\ ghost'.resumed = ghost.resumed \cup {frame.processed_vulns + 1}
                  /\ frame'.processed_vulns >= frame.processed_vulns + 1
                  /\ frame'.fi >= frame.fi]_vars

\* a paused scan has been resumed and has taken up the finding it was paused at
C12_Witness ==
    /\ scan # NoRow
    /\ ghost.resumed # {}
    /\ frame.processed_vulns \in ghost.resumed

\* C13: every scan whose failure has been reported, by status failed in the
\* ScanResult row or by status failed in the answer of get_scan_status, has a
\* non-empty error_message in its ScanResult row.
C13_FailedScanHasMessage ==
    (scan # NoRow /\ (scan.status = "failed" \/ get_scan_status.status = "failed"))
        => scan.error_message # <<>>

\* C14: pause_scan, resume_scan and stop_scan change nothing but the control
\* entry of the scan: the ScanResult row, the rows of its analyses, the
\* progress snapshot and the orchestrator are left as they are; and the control
\* entry is only changed to an action the status of the scan admits (pause when
\* pending or running; stop when pending, running or paused; cleared when
\* paused or when a pause is pending), so a rejected request leaves it unchanged.
C14_ControlRequestsTouchControlOnly ==
    /\ [][(pause_scan \/ resume_scan \/ stop_scan) =>
            /\ scan' = scan
            /\ analyses' = analyses
            /\ scan_progress' = scan_progress
            /\ frame' = frame
            /\ configuration' = configuration
            /\ defaults' = defaults]_vars
    /\ [][(frame' = frame /\ scan_control' # scan_control) =>
            /\ scan # NoRow
            /\ scan' = scan /\ analyses' = analyses /\ scan_progress' = scan_progress
            /\ scan_control' \in {[action |-> "pause"], [action |-> None], [action |-> "stop"]}
            /\ scan_control'.action = "pause" => scan.status \in {"pending", "running"}
            /\ scan_control'.action = "stop" => scan.status \in {"pending", "running", "paused"}
            /\ scan_control'.action = None =>
                  scan.status = "paused" \/ ControlAction(scan_control) = "pause"]_vars

\* a stop has been accepted for a paused scan and the orchestrator has not seen it yet
C14_Witness ==
    /\ scan # NoRow
    /\ scan.status = "paused"
    /\ scan_progress.status = "paused"
    /\ ControlAction(scan_control) = "stop"

\* C15: delete_scan cascades: the request removes the ScanResult row and every
\* VulnerabilityAnalysis row of the scan, and from then on the store holds
\* neither, also when the orchestrator of the scan is still running or paused.
C15_DeleteScanCascades ==
    /\ [](scan = NoRow => analyses = <<>>)
    /\ [][delete_scan => (scan' = NoRow /\ analyses' = <<>>)]_vars
    /\ [][(scan = NoRow /\ frame.pc # "idle") => (scan' = NoRow /\ analyses' = <<>>)]_vars

\* the scan was deleted under its orchestrator, which has run on to its end
C15_Witness ==
    /\ scan = NoRow
    /\ frame.pc = "done"
    /\ ghost.llm_calls # <<>>
    /\ scan_progress # Absent
    /\ scan_progress.status = "failed"
    /\ <<"running", "failed">> \notin ghost.transitions

\* no element occurs twice in the list
NoDuplicates(seq) == \A i, j \in 1..Len(seq) : seq[i] = seq[j] => i = j

\* C16: within one scan the source of a file path is retrieved at most once:
\* get_file_content is called at most once per path, and for the file groups
\* in their order; get_file_content_raw is called at most once per path and
\* only for a path whose get_file_content returned no text; a file is held to
\* have no source only after both returned no text; and every finding of the
\* file is handled with the one cached result.
C16_SourceFetchedOncePerFile ==
    /\ NoDuplicates(ghost.get_file_calls)
    /\ NoDuplicates(ghost.get_raw_calls)
    /\ Len(ghost.get_file_calls) <= Len(frame.grouped_vulns)
    /\ \A i \in 1..Len(ghost.get_file_calls) :
          ghost.get_file_calls[i] = frame.grouped_vulns[i].file_path
    /\ \A i \in 1..Len(ghost.get_raw_calls) :
          \E j \in 1..Len(ghost.get_file_results) :
              /\ ghost.get_file_calls[j] = ghost.get_raw_calls[i]
              /\ ~Truthy(ghost.get_file_results[j])
    /\ \A path \in DOMAIN frame.source_code_cache :
          /\ path \in Range(ghost.get_file_calls)
          /\ ~Truthy(frame.source_code_cache[path]) => path \in Range(ghost.get_raw_calls)
    /\ frame.processed_vulns > 0 =>
          /\ frame.grouped_vulns[frame.fi].file_path \in DOMAIN frame.source_code_cache
          /\ frame.source_code = frame.source_code_cache[frame.grouped_vulns[frame.fi].file_path]
    /\ \A k \in Range(ghost.llm_calls) :
          \E i \in 1..Len(WorkItems(frame.grouped_vulns)) :
              /\ WorkItems(frame.grouped_vulns)[i].key = k
              /\ Truthy(frame.source_code_cache[WorkItems(frame.grouped_vulns)[i].file_path])

\* both fetches of a file returned no text and its finding was taken up
C16_Witness ==
    /\ ghost.get_raw_calls # <<>>
    /\ \E path \in DOMAIN frame.source_code_cache : ~Truthy(frame.source_code_cache[path])
    /\ frame.processed_vulns > 0

\* the number of rows written with this verdict
RowsWithTriage(triage) ==
    Cardinality({i \in 1..Len(analyses) : analyses[i].triage = triage})

-----------------------------------------------------------------------------
(* LLMService (services/llm.py): the classifier adapter                     *)
(*                                                                         *)
(* A response text is a sequence of tokens:                                *)
(*   "{"  "}"  the braces of a JSON object                                 *)
(*   "m"  the members "triage":"true_positive","confidence":0.9,           *)
(*        "severity_override":"HIGH"                                       *)
(*   "x"  the members "triage":"unsure","confidence":5,                    *)
(*        "severity_override":"URGENT"                                     *)
(*   "q"  a member whose string value contains the character }             *)
(*   "k"  a member key and its colon, before a nested object               *)
(*   "4"  a JSON number other than 0;  "n"  the JSON literal null          *)
(*   "p"  a word of prose;  "w"  white space                               *)
(*   "f"  a fence of three backquotes;  "j"  the word json                 *)
(*   "<"  the cut-off head of a "q", where a span ends inside its string   *)
(* Confidence is counted in hundredths.                                    *)

\* most chunks a response text is put together from
MaxChunks == 4

ResponseChunks ==
    { <<"{", "m", "}">>, <<"{", "x", "}">>, <<"{", "q", "m", "}">>,
      <<"{", "m", "k", "{", "x", "}", "}">>, <<"{">>, <<"}">>,
      <<"p">>, <<"w">>, <<"f">>, <<"f", "j">>, <<"4">>, <<"n">> }

RECURSIVE TextsOf(_)
TextsOf(n) ==
    IF n = 0 THEN {<<>>}
    ELSE LET shorter == TextsOf(n - 1)
         IN  shorter \cup {t \o c : t \in shorter, c \in ResponseChunks}

ResponseTexts == TextsOf(MaxChunks)

\* what the awaited POST and the reading of its body come to
BackendResponses ==
    {[kind |-> "content", content |-> t] : t \in ResponseTexts}
    \cup {[kind |-> k, content |-> <<>>] :
            k \in {"timeout", "http_error", "malformed_body", "null_content"}}

\* str.strip()
RECURSIVE Strip(_)
Strip(s) ==
    IF s = <<>> THEN s
    ELSE IF Head(s) = "w" THEN Strip(Tail(s))
    ELSE IF s[Len(s)] = "w" THEN Strip(SubSeq(s, 1, Len(s) - 1))
    ELSE s

IsNotSpace(c) == c # "w"

\* the nesting depth a JSON parser is at after the first i tokens
RECURSIVE DepthAt(_, _)
DepthAt(s, i) ==
    IF i = 0 THEN 0
    ELSE DepthAt(s, i - 1)
            + (IF s[i] = "{" THEN 1 ELSE IF s[i] = "}" THEN -1 ELSE 0)

\* the text is one JSON object and nothing else
IsObjectText(t) ==
    /\ Len(t) >= 2
    /\ t[1] = "{"
    /\ t[Len(t)] = "}"
    /\ \A i \in 1..Len(t) : t[i] \in {"{", "}", "m", "x", "q", "k"}
    /\ \A i \in 1..(Len(t) - 1) : DepthAt(t, i) > 0
    /\ DepthAt(t, Len(t)) = 0
    /\ \A i \in 2..Len(t) : (t[i] = "{") <=> (t[i - 1] = "k")
    /\ \A i \in 2..Len(t) : t[i] = "}" => t[i - 1] # "k"

JSONDecodeError == [ok |-> FALSE, value |-> <<>>]

\* json.loads: the value parsed (the text without its white space), or the error
loads(s) ==
    LET t == SelectSeq(s, IsNotSpace)
    IN  IF t \in {<<"4">>, <<"n">>} \/ IsObjectText(t)
        THEN [ok |-> TRUE, value |-> t]
        ELSE JSONDecodeError

\* isinstance(value, dict)
IsDict(value) == value # <<>> /\ value[1] = "{"

\* bool(value): null and the empty dict are falsy
Bool(value) == value \notin {<<>>, <<"n">>, <<"{", "}">>}

\* the members of the dict itself, not of a nested one
TopMembers(value) ==
    {i \in 1..Len(value) : value[i] \in {"m", "x"} /\ DepthAt(value, i) = 1}

\* the verdict keys of a parsed dict: of a repeated key the last one stays
DictVerdict(value) ==
    IF TopMembers(value) = {}
    THEN [triage |-> None, has_triage |-> FALSE, confidence |-> 0,
          severity_override |-> None]
    ELSE LET last == CHOOSE i \in TopMembers(value) :
                        \A j \in TopMembers(value) : j <= i
         IN  IF value[last] = "m"
             THEN [triage |-> "true_positive", has_triage |-> TRUE,
                   confidence |-> 90, severity_override |-> "HIGH"]
             ELSE [triage |-> "unsure", has_triage |-> TRUE,
                   confidence |-> 500, severity_override |-> "URGENT"]

\* content.find(token), 0 when it is not there
Find(s, tokens) ==
    IF \E i \in 1..Len(s) : s[i] \in tokens
    THEN CHOOSE i \in 1..Len(s) :
            s[i] \in tokens /\ \A j \in 1..(i - 1) : s[j] \notin tokens
    ELSE 0

\* the text from position first up to the next fence, or up to the end
UpToFence(s, first) ==
    LET rest == SubSeq(s, first, Len(s))
        stop == Find(rest, {"f"})
    IN  IF stop = 0 THEN rest ELSE SubSeq(rest, 1, stop - 1)

\* content[first:last] where the slice may end inside the string of a "q"
Span(s, first, last) ==
    IF s[last] = "q"
    THEN SubSeq(s, first, last - 1) \o <<"<">>
    ELSE SubSeq(s, first, last)

Skipped == [status |-> "skipped", value |-> <<>>]

Parsed(r) ==
    IF r.ok THEN [status |-> "returned", value |-> r.value]
    ELSE [status |-> "failed", value |-> <<>>]

\* Strategy 1: json.loads(content.strip())
DirectParse(content) == Parsed(loads(Strip(content)))

\* Strategy 2, first block: the text after the first fence with json up to the next fence
FencedJsonBlock(content) ==
    IF \E i \in 1..(Len(content) - 1) : content[i] = "f" /\ content[i + 1] = "j"
    THEN LET i == CHOOSE i \in 1..(Len(content) - 1) :
                    /\ content[i] = "f" /\ content[i + 1] = "j"
                    /\ \A h \in 1..(i - 1) : ~(content[h] = "f" /\ content[h + 1] = "j")
         IN  Parsed(loads(Strip(UpToFence(content, i + 2))))
    ELSE Skipped

\* Strategy 2, second block: the text between the first two fences, without
\* a leading language identifier
FencedBlock(content) ==
    IF Find(content, {"f"}) # 0
    THEN LET json_str == Strip(UpToFence(content, Find(content, {"f"}) + 1))
         IN  IF json_str # <<>> /\ Head(json_str) = "j"
             THEN Parsed(loads(Strip(Tail(json_str))))
             ELSE Parsed(loads(json_str))
    ELSE Skipped

\* Strategy 3: re.search(r'\{.*\}', content, re.DOTALL), the widest span
RegexSpan(content) ==
    LET start_idx == Find(content, {"{"})
        closers == {i \in 1..Len(content) : i > start_idx /\ content[i] \in {"}", "q"}}
    IN  IF start_idx = 0 \/ closers = {}
        THEN Skipped
        ELSE LET last == CHOOSE i \in closers : \A j \in closers : j <= i
             IN  Parsed(loads(Span(content, start_idx, last)))

\* brace_count after the scan has read content[start_idx .. i]
RECURSIVE BraceCount(_, _, _)
BraceCount(content, start_idx, i) ==
    IF i < start_idx THEN 0
    ELSE BraceCount(content, start_idx, i - 1)
            + (IF content[i] = "{" THEN 1
               ELSE IF content[i] \in {"}", "q"} THEN -1 ELSE 0)

\* Strategy 4: from the first { to the } that brings brace_count back to 0
BalancedBraces(content) ==
    LET start_idx == Find(content, {"{"})
        ends == {i \in 1..Len(content) :
                    /\ i > start_idx
                    /\ content[i] \in {"}", "q"}
                    /\ BraceCount(content, start_idx, i) = 0}
    IN  IF start_idx = 0 \/ ends = {}
        THEN Skipped
        ELSE LET end_idx == CHOOSE i \in ends : \A j \in ends : i <= j
             IN  Parsed(loads(Span(content, start_idx, end_idx)))

Attempt(strategy, content) ==
    CASE strategy = "direct" -> DirectParse(content)
      [] strategy = "fenced_json" -> FencedJsonBlock(content)
      [] strategy = "fenced" -> FencedBlock(content)
      [] strategy = "regex" -> RegexSpan(content)
      [] strategy = "balanced" -> BalancedBraces(content)

\* the order of the strategies in _extract_json
StrategyOrder == <<"direct", "fenced_json", "fenced", "regex", "balanced">>

\* the order with the brace scan before the regex
BalancedBeforeRegex == <<"direct", "fenced_json", "fenced", "balanced", "regex">>

\* the strategies one after the other until one returns; tried lists the
\* strategies entered
RECURSIVE TryFrom(_, _, _, _)
TryFrom(order, i, content, tried) ==
    IF i > Len(order)
    THEN [returned |-> FALSE, value |-> <<>>, tried |-> tried]
    ELSE LET a == Attempt(order[i], content)
         IN  IF a.status = "returned"
             THEN [returned |-> TRUE, value |-> a.value,
                   tried |-> Append(tried, order[i])]
             ELSE TryFrom(order, i + 1, content, Append(tried, order[i]))

_extract_json_balanced_first(content) == TryFrom(BalancedBeforeRegex, 1, content, <<>>)

_extract_json(content) == TryFrom(StrategyOrder, 1, content, <<>>)

NoResult ==
    [triage |-> None, has_triage |-> FALSE, confidence |-> 0,
     short_reason |-> "", severity_override |-> None, raw_response |-> <<>>,
     parse_error |-> FALSE, error |-> ""]

\* the dict the backend sent, with raw_response and prompt_sent added
VerdictResult(value, content) ==
    [triage |-> DictVerdict(value).triage,
     has_triage |-> DictVerdict(value).has_triage,
     confidence |-> DictVerdict(value).confidence,
     short_reason |-> "from the backend",
     severity_override |-> DictVerdict(value).severity_override,
     raw_response |-> <<content>>, parse_error |-> FALSE, error |-> ""]

ParseFailureResult(content) ==
    [triage |-> "needs_human_review", has_triage |-> TRUE, confidence |-> 0,
     short_reason |-> "Failed to parse LLM response as JSON",
     severity_override |-> None, raw_response |-> <<content>>,
     parse_error |-> TRUE, error |-> ""]

TimeoutResult ==
    [triage |-> "needs_human_review", has_triage |-> TRUE, confidence |-> 0,
     short_reason |-> "LLM request timed out",
     severity_override |-> None, raw_response |-> <<>>,
     parse_error |-> FALSE, error |-> "timeout"]

\* except Exception as e
RequestFailedResult(e) ==
    [triage |-> "needs_human_review", has_triage |-> TRUE, confidence |-> 0,
     short_reason |-> "LLM request failed",
     severity_override |-> None, raw_response |-> <<>>,
     parse_error |-> FALSE, error |-> e]

\* the try block of analyze_vulnerability from the return of client.post on:
\* what is returned, whether an exception leaves the coroutine, and the
\* strategies _extract_json went through
AnalyzeVulnerability(response) ==
    CASE response.kind = "timeout" ->
            [raised |-> FALSE, tried |-> <<>>, extracted |-> FALSE, value |-> <<>>,
             result |-> TimeoutResult]
      [] response.kind = "http_error" ->
            [raised |-> FALSE, tried |-> <<>>, extracted |-> FALSE, value |-> <<>>,
             result |-> RequestFailedResult("HTTPStatusError")]
      [] response.kind = "malformed_body" ->
            [raised |-> FALSE, tried |-> <<>>, extracted |-> FALSE, value |-> <<>>,
             result |-> RequestFailedResult("JSONDecodeError")]
      [] response.kind = "null_content" ->
            [raised |-> FALSE, tried |-> <<"direct">>, extracted |-> FALSE,
             value |-> <<>>, result |-> RequestFailedResult("AttributeError")]
      [] response.kind = "content" ->
            LET content == response.content
                result == _extract_json(content)
            IN  IF Bool(result.value)
                THEN IF IsDict(result.value)
                     THEN [raised |-> FALSE, tried |-> result.tried, extracted |-> TRUE,
                           value |-> result.value,
                           result |-> VerdictResult(result.value, content)]
                     ELSE [raised |-> FALSE, tried |-> result.tried, extracted |-> TRUE,
                           value |-> result.value,
                           result |-> RequestFailedResult("TypeError")]
                ELSE [raised |-> FALSE, tried |-> result.tried,
                      extracted |-> result.returned, value |-> result.value,
                      result |-> ParseFailureResult(content)]

\* the call is waiting for client.post; the backend's answer is any of
\* BackendResponses
InitLLM ==
    /\ configuration = NoRow
    /\ defaults = NoRow
    /\ scan = NoRow
    /\ analyses = <<>>
    /\ scan_progress = Absent
    /\ scan_control = Absent
    /\ frame = InitFrame
    /\ ghost = InitGhost
    /\ pager = [pc |-> "idle"]
    /\ \E response \in BackendResponses :
          llm = [pc |-> "post", response |-> response, raised |-> FALSE,
                 tried |-> <<>>, extracted |-> FALSE, value |-> <<>>,
                 result |-> NoResult]

\* client.post returns or raises, and analyze_vulnerability runs to its return
client_post_returns ==
    /\ llm.pc = "post"
    /\ LET out == AnalyzeVulnerability(llm.response)
       IN  llm' = [pc |-> "returned", response |-> llm.response,
                   raised |-> out.raised, tried |-> out.tried,
                   extracted |-> out.extracted, value |-> out.value,
                   result |-> out.result]
    /\ UNCHANGED <<pager, configuration, defaults, scan, analyses, scan_progress,
                   scan_control, frame, ghost>>

NextLLM == client_post_returns

SpecLLM == InitLLM /\ [][NextLLM]_vars

-----------------------------------------------------------------------------
(* Properties of the classifier adapter *)

ProseOnly(s) == \A i \in 1..Len(s) : s[i] \in {"p", "w"}

SpaceOnly(s) == \A i \in 1..Len(s) : s[i] = "w"

\* the text is one JSON object that has a "triage" member
IsVerdictObject(s) ==
    LET t == SelectSeq(s, IsNotSpace)
    IN  IsObjectText(t) /\ TopMembers(t) # {}

\* the objects of a response that is a bare JSON object or prose around one
\* JSON object
BareOrInProse(content) ==
    {SelectSeq(SubSeq(content, i, j), IsNotSpace) : <<i, j>> \in
        {ij \in (1..Len(content)) \X (1..Len(content)) :
            /\ ij[1] < ij[2]
            /\ IsVerdictObject(SubSeq(content, ij[1], ij[2]))
            /\ ProseOnly(SubSeq(content, 1, ij[1] - 1))
            /\ ProseOnly(SubSeq(content, ij[2] + 1, Len(content)))}}

\* the objects of a response that is one fenced JSON block, with or without
\* the word json after the opening fence, and prose around the block
InFence(content) ==
    {SelectSeq(SubSeq(content, i, j), IsNotSpace) : <<i, j>> \in
        {ij \in (1..Len(content)) \X (1..Len(content)) :
            /\ ij[1] < ij[2]
            /\ IsVerdictObject(SubSeq(content, ij[1], ij[2]))
            /\ \E a \in 1..(ij[1] - 1), b \in (ij[2] + 1)..Len(content) :
                  /\ content[a] = "f"
                  /\ content[b] = "f"
                  /\ ProseOnly(SubSeq(content, 1, a - 1))
                  /\ ProseOnly(SubSeq(content, b + 1, Len(content)))
                  /\ SpaceOnly(SubSeq(content, ij[2] + 1, b - 1))
                  /\ \/ SpaceOnly(SubSeq(content, a + 1, ij[1] - 1))
                     \/ /\ a + 1 < ij[1]
                        /\ content[a + 1] = "j"
                        /\ SpaceOnly(SubSeq(content, a + 2, ij[1] - 1))}}

\* none of the four strategies gets a JSON object out of the response
NoObjectIn(content) ==
    \A i \in 1..Len(StrategyOrder) :
        LET a == Attempt(StrategyOrder[i], content)
        IN  ~(a.status = "returned" /\ IsDict(a.value))

\* C18: analyze_vulnerability returns a result and raises nothing, whatever
\* the backend did; a response that is a bare JSON object, a fenced JSON block
\* or prose around one JSON object gives that object's triage; a response no
\* object can be extracted from gives needs_human_review with confidence 0,
\* the parse-failure reason and the raw text.
C18_AdapterDegradesAndNeverRaises ==
    llm.pc = "returned" =>
        /\ ~llm.raised
        /\ llm.response.kind = "content" =>
              LET content == llm.response.content
              IN  /\ \A object \in BareOrInProse(content) \cup InFence(content) :
                        llm.result.triage = DictVerdict(object).triage
                  /\ NoObjectIn(content) =>
                        /\ llm.result.triage = "needs_human_review"
                        /\ llm.result.confidence = 0
                        /\ llm.result.parse_error
                        /\ llm.result.raw_response = <<content>>

IsPrefix(s, t) == Len(s) <= Len(t) /\ \A i \in 1..Len(s) : s[i] = t[i]

\* the strategies were gone through in this order up to the first one that
\* returned, and what was returned is what that one parsed
TriedInOrder(order) ==
    LET content == llm.response.content
        tried == llm.tried
    IN  /\ tried # <<>>
        /\ IsPrefix(tried, order)
        /\ \A i \in 1..(Len(tried) - 1) : Attempt(tried[i], content).status # "returned"
        /\ IF llm.extracted
           THEN /\ Attempt(tried[Len(tried)], content).status = "returned"
                /\ llm.value = Attempt(tried[Len(tried)], content).value
           ELSE /\ tried = order
                /\ Attempt(tried[Len(tried)], content).status # "returned"
                /\ llm.value = <<>>

\* C19 as stated: the strategies are tried in the order whole response, fenced
\* block, first balanced object by brace scan, widest span by regex, and the
\* result of the first that succeeds is returned.
C19_BalancedScanBeforeRegex ==
    (llm.pc = "returned" /\ llm.response.kind = "content") =>
        TriedInOrder(BalancedBeforeRegex)

\* C19: the strategies are tried in the order whole response, fenced block,
\* widest span by regex, first balanced object by brace scan; the result of
\* the first that succeeds is returned and a later strategy runs only if
\* every earlier one failed; the value returned is the one the order with
\* the brace scan before the regex would have returned.
C19_RegexBeforeBalancedScan ==
    (llm.pc = "returned" /\ llm.response.kind = "content") =>
        /\ TriedInOrder(StrategyOrder)
        /\ llm.extracted = TryFrom(BalancedBeforeRegex, 1, llm.response.content, <<>>).returned
        /\ llm.value = TryFrom(BalancedBeforeRegex, 1, llm.response.content, <<>>).value

\* the regex span did not parse and the brace scan found the object
C19_Witness ==
    /\ llm.pc = "returned"
    /\ llm.response.kind = "content"
    /\ llm.tried = StrategyOrder
    /\ RegexSpan(llm.response.content).status = "failed"
    /\ llm.extracted
    /\ IsDict(llm.value)
    /\ Bool(llm.value)

\* C20: every result analyze_vulnerability returns has triage in
\* {false_positive, true_positive, needs_human_review}, confidence in [0,1]
\* and severity_override in {LOW, MEDIUM, HIGH, CRITICAL, null}, whatever
\* object the backend returned.
C20_ResultWithinTheContract ==
    llm.pc = "returned" =>
        /\ llm.result.has_triage
        /\ llm.result.triage \in {"false_positive", "true_positive", "needs_human_review"}
        /\ llm.result.confidence \in 0..100
        /\ llm.result.severity_override \in {"LOW", "MEDIUM", "HIGH", "CRITICAL", None}

-----------------------------------------------------------------------------
(* Properties of the findings on their way to the rows *)

\* the finding with this key as fetch_all_vulnerabilities returned it
FetchedWithKey(key) ==
    frame.issues[CHOOSE i \in 1..Len(frame.issues) : frame.issues[i].key = key]

\* C21: the row run_scan builds for a finding of the work list carries the
\* attributes of the fetched finding: its key and path, the kind
\* SECURITY_HOTSPOT exactly when the fetched finding is a hotspot (VULNERABILITY
\* otherwise), and the hotspot's security category.
C21_RowCarriesKindAndCategory ==
    \A g \in 1..Len(frame.grouped_vulns) :
        \A v \in 1..Len(frame.grouped_vulns[g].vulnerabilities) :
            LET file_path == frame.grouped_vulns[g].file_path
                vuln == frame.grouped_vulns[g].vulnerabilities[v]
                row == AnalysisRow(file_path, vuln, "needs_human_review", "0.0", <<>>)
                fetched == FetchedWithKey(vuln.key)
            IN  /\ row.sonarqube_key = fetched.key
                /\ row.file_path = FilePathOf(fetched)
                /\ row.issue_type = fetched.issue_type
                /\ (row.issue_type = "SECURITY_HOTSPOT") <=> (fetched.type = "SECURITY_HOTSPOT")
                /\ row.security_category = Get(fetched, "security_category", None)

-----------------------------------------------------------------------------
(* group_vulnerabilities_by_file on its own: the call with any fetched list *)

InitGroup ==
    /\ configuration = NoRow
    /\ defaults = NoRow
    /\ scan = NoRow
    /\ analyses = <<>>
    /\ scan_progress = Absent
    /\ scan_control = Absent
    /\ ghost = InitGhost
    /\ llm = [pc |-> "idle"]
    /\ pager = [pc |-> "idle"]
    /\ \E issues \in FetchedLists :
          frame = [InitFrame EXCEPT !.issues = issues, !.pc = "group"]

\* grouped_vulns = sonar_service.group_vulnerabilities_by_file(issues)
group_vulnerabilities_by_file_returns ==
    /\ frame.pc = "group"
    /\ frame' = [frame EXCEPT !.grouped_vulns = group_vulnerabilities_by_file(frame.issues),
                              !.pc = "grouped"]
    /\ UNCHANGED <<pager, llm, configuration, defaults, scan, analyses, scan_progress,
                   scan_control, ghost>>

NextGroup == group_vulnerabilities_by_file_returns

SpecGroup == InitGroup /\ [][NextGroup]_vars

\* the keys of the findings of a list, in the order of the list
KeysOf(findings) == [i \in 1..Len(findings) |-> findings[i].key]

\* the findings of the input with this resolved path, in input order
WithPath(issues, path) ==
    LET HasPath(issue) == FilePathOf(issue) = path
    IN  SelectSeq(issues, HasPath)

\* C22: group_vulnerabilities_by_file partitions its input without loss or
\* reordering: no key is empty or repeated, the findings under a key are the
\* input findings with that path, each once and in input order, every
\* non-empty path of the input is a key, findings with an empty path are under
\* no key, and the empty list gives the empty mapping.
C22_GroupingPartitionsInOrder ==
    frame.pc = "grouped" =>
        LET issues == frame.issues
            grouped == frame.grouped_vulns
        IN  /\ \A g \in 1..Len(grouped) :
                  /\ grouped[g].file_path # ""
                  /\ \A h \in 1..Len(grouped) :
                        grouped[h].file_path = grouped[g].file_path => h = g
                  /\ KeysOf(grouped[g].vulnerabilities)
                        = KeysOf(WithPath(issues, grouped[g].file_path))
            /\ \A i \in 1..Len(issues) :
                  FilePathOf(issues[i]) # "" =>
                      \E g \in 1..Len(grouped) : grouped[g].file_path = FilePathOf(issues[i])
            /\ Len(Flatten(grouped)) = Len(issues) - Dropped(issues)
            /\ issues = <<>> => grouped = <<>>

\* two findings of one file with a finding of another file between them
C22_Witness ==
    /\ frame.pc = "grouped"
    /\ Len(frame.issues) = 3
    /\ Len(frame.grouped_vulns) = 2
    /\ KeysOf(frame.grouped_vulns[1].vulnerabilities) = <<1, 3>>
    /\ KeysOf(frame.grouped_vulns[2].vulnerabilities) = <<2>>

-----------------------------------------------------------------------------
(* fetch_all_vulnerabilities and fetch_all_security_hotspots (sonarqube.py) *)
(* against a provider that reports a fixed total and page size for the     *)
(* issues and for the hotspots and answers every request with the page     *)
(* asked for.  An item is <<kind, n>>: the n-th issue or hotspot of the     *)
(* provider.                                                               *)

\* most issues, and most hotspots, the provider holds
MaxTotal == 4

\* largest page size the provider reports
MaxPageSize == 2

Min(a, b) == IF a <= b THEN a ELSE b

\* the items the provider puts on page p
PageItems(kind, p, ps, total) ==
    [n \in 1..(IF Min(p * ps, total) > (p - 1) * ps
               THEN Min(p * ps, total) - (p - 1) * ps ELSE 0) |->
        <<kind, (p - 1) * ps + n>>]

\* mutant of LastPage: the loop goes on while the pages read hold exactly total
LastPageStrict(current_page, ps, total) == current_page * ps > total

\* `if current_page * ps >= total: break`
LastPage(current_page, ps, total) == current_page * ps >= total

\* the call has sent its first request, for page 1 of the issues
InitFetch ==
    /\ configuration = NoRow
    /\ defaults = NoRow
    /\ scan = NoRow
    /\ analyses = <<>>
    /\ scan_progress = Absent
    /\ scan_control = Absent
    /\ frame = InitFrame
    /\ ghost = InitGhost
    /\ llm = [pc |-> "idle"]
    /\ \E total \in 0..MaxTotal, ps \in 1..MaxPageSize,
          hotspot_total \in 0..MaxTotal, hotspot_ps \in 1..MaxPageSize :
          pager = [pc |-> "fetch_vulnerabilities", page |-> 1,
                   total |-> total, ps |-> ps,
                   hotspot_total |-> hotspot_total, hotspot_ps |-> hotspot_ps,
                   all_issues |-> <<>>, all_hotspots |-> <<>>,
                   requests |-> << <<"issues", 1>> >>]

\* fetch_vulnerabilities returns a page: one pass of the first `while True`
fetch_vulnerabilities_returns ==
    /\ pager.pc = "fetch_vulnerabilities"
    /\ LET issues == PageItems("VULNERABILITY", pager.page, pager.ps, pager.total)
       IN  IF LastPage(pager.page, pager.ps, pager.total)
           THEN pager' = [pager EXCEPT !.all_issues = @ \o issues,
                                       !.page = 1,
                                       !.requests = Append(@, <<"hotspots", 1>>),
                                       !.pc = "fetch_security_hotspots"]
           ELSE pager' = [pager EXCEPT !.all_issues = @ \o issues,
                                       !.page = @ + 1,
                                       !.requests = Append(@, <<"issues", pager.page + 1>>)]
    /\ UNCHANGED <<llm, configuration, defaults, scan, analyses, scan_progress,
                   scan_control, frame, ghost>>

\* fetch_security_hotspots returns a page: one pass of the loop of
\* fetch_all_security_hotspots, and after the last page the return of both
fetch_security_hotspots_returns ==
    /\ pager.pc = "fetch_security_hotspots"
    /\ LET hotspots == PageItems("SECURITY_HOTSPOT", pager.page, pager.hotspot_ps,
                                 pager.hotspot_total)
       IN  IF LastPage(pager.page, pager.hotspot_ps, pager.hotspot_total)
           THEN pager' = [pager EXCEPT !.all_hotspots = @ \o hotspots,
                                       !.all_issues = @ \o pager.all_hotspots \o hotspots,
                                       !.pc = "returned"]
           ELSE pager' = [pager EXCEPT !.all_hotspots = @ \o hotspots,
                                       !.page = @ + 1,
                                       !.requests = Append(@, <<"hotspots", pager.page + 1>>)]
    /\ UNCHANGED <<llm, configuration, defaults, scan, analyses, scan_progress,
                   scan_control, frame, ghost>>

NextFetch ==
    \/ fetch_vulnerabilities_returns
    \/ fetch_security_hotspots_returns

\* every request is answered
SpecFetch == InitFetch /\ [][NextFetch]_vars /\ WF_vars(NextFetch)

\* the first page p >= 1 with p * ps >= total
FirstLastPage(ps, total) == IF total = 0 THEN 1 ELSE (total + ps - 1) \div ps

\* the items of the pages 1 .. p, page after page
RECURSIVE ItemsUpTo(_, _, _, _)
ItemsUpTo(kind, p, ps, total) ==
    IF p = 0 THEN <<>>
    ELSE ItemsUpTo(kind, p - 1, ps, total) \o PageItems(kind, p, ps, total)

\* the requests for the pages 1 .. p of one kind
RequestsUpTo(kind, p) == [i \in 1..p |-> <<kind, i>>]

PagesAsked(kind) ==
    Cardinality({i \in 1..Len(pager.requests) : pager.requests[i][1] = kind})

FetchInOrder ==
    LET issue_pages == PagesAsked("issues")
        hotspot_pages == PagesAsked("hotspots")
        last_issue_page == FirstLastPage(pager.ps, pager.total)
        last_hotspot_page == FirstLastPage(pager.hotspot_ps, pager.hotspot_total)
    IN  pager.pc # "idle" =>
            /\ pager.requests = RequestsUpTo("issues", issue_pages)
                                    \o RequestsUpTo("hotspots", hotspot_pages)
            /\ issue_pages >= 1
            /\ issue_pages <= last_issue_page
            /\ hotspot_pages <= last_hotspot_page
            /\ pager.pc = "fetch_vulnerabilities" => hotspot_pages = 0
            /\ pager.pc # "fetch_vulnerabilities" =>
                  /\ issue_pages = last_issue_page
                  /\ hotspot_pages >= 1
            /\ pager.pc = "returned" =>
                  /\ hotspot_pages = last_hotspot_page
                  /\ pager.all_issues =
                        ItemsUpTo("VULNERABILITY", issue_pages, pager.ps, pager.total)
                            \o ItemsUpTo("SECURITY_HOTSPOT", hotspot_pages,
                                         pager.hotspot_ps, pager.hotspot_total)
                  /\ Len(pager.all_issues) = pager.total + pager.hotspot_total

\* C23: both pagination loops terminate: each asks for the pages 1, 2, ... in
\* order, at least one, and stops after the first page p with
\* p * page size >= total; the list returned holds every item of every page
\* fetched, the issues before the hotspots.
C23_PaginationTerminates ==
    /\ []FetchInOrder
    /\ <>(pager.pc = "returned")

\* both loops went beyond their first page and ended on a page that is not full
C23_Witness ==
    /\ pager.pc = "returned"
    /\ PagesAsked("issues") >= 2
    /\ PagesAsked("hotspots") >= 2
    /\ pager.total % pager.ps # 0
    /\ pager.hotspot_total % pager.hotspot_ps # 0

-----------------------------------------------------------------------------
(* Properties of the control requests and of the terminal states *)

\* C24: after stop_scan has accepted a stop while the status of the scan was
\* paused, no further finding is taken up (no classifier call, no row), and
\* the terminal status the scan reaches is stopped, whatever resume requests
\* follow.
C24_StopWhilePausedStops ==
    \A n \in ghost.stop_while_paused :
        /\ frame.processed_vulns = n
        /\ Len(ghost.llm_calls) <= n
        /\ (scan # NoRow /\ scan.status \in Terminal) => scan.status = "stopped"

\* C25: a pause or stop request accepted while the status is pending is not
\* lost: when run_scan sets the scan running, the control entry the request
\* wrote is still the entry of the scan, so that the first finding boundary
\* reads it.
C25_PendingRequestKept ==
    [][(/\ scan # NoRow
        /\ scan.status = "pending"
        /\ ControlAction(scan_control) \in {"pause", "stop"}
        /\ scan' # NoRow
        /\ scan'.status = "running")
       => scan_control' = scan_control]_vars

\* C26: whenever a progress snapshot exists for a scan whose row is in the
\* store, in every state a request handler can run in, the status of the
\* snapshot is the status of the row, so the status answer of get_scan_status
\* is the durable status.
C26_SnapshotStatusIsDurableStatus ==
    (scan # NoRow /\ scan_progress # Absent)
        => /\ scan_progress.status = scan.status
           /\ get_scan_status.status = scan.status

\* a paused scan whose snapshot get_scan_status reads
C26_Witness ==
    /\ scan # NoRow
    /\ scan_progress # Absent
    /\ scan.status = "paused"
    /\ frame.pc = "pause_sleep"
    /\ get_scan_status.status = "paused"

-----------------------------------------------------------------------------
(* Termination of a scan *)

\* run_scan is a task of the event loop: once queued it is started, each of
\* its awaits of an external call or of a sleep returns or raises, and a pause
\* loop that is shown a control action other than pause again and again leaves
\* at one of its sleeps
FairSpec ==
    /\ Init
    /\ [][Next]_vars
    /\ WF_vars(RunScanStarts)
    /\ WF_vars(FetchAllReturns)
    /\ WF_vars(get_file_content_returns)
    /\ WF_vars(get_file_content_raw_returns)
    /\ WF_vars(analyze_vulnerability_returns)
    /\ WF_vars(SleepReturns)
    /\ SF_vars(SleepReturns /\ ControlAction(scan_control) # "pause")

\* every pause is followed by a resume or a stop
PausesAreAnswered == []<>(ControlAction(scan_control) # "pause")

\* C28: every started scan reaches a terminal status (completed, failed or
\* stopped) unless it is deleted, provided every external call returns or
\* raises and every pause is followed by a resume or a stop: no scan stays
\* pending, running or paused forever.
C28_ScanTerminates ==
    PausesAreAnswered
        => ((scan # NoRow) ~> (scan = NoRow \/ scan.status \in Terminal))

\* a scan that was paused, was resumed and has reached a terminal status
C28_Witness ==
    /\ scan # NoRow
    /\ scan.status \in Terminal
    /\ <<"running", "paused">> \in ghost.transitions
    /\ <<"paused", "running">> \in ghost.transitions

\* C29: terminal states are absorbing for the whole row: once the status is
\* completed, failed or stopped, no step of run_scan and no pause, resume,
\* stop or status request changes the status, a counter, the error message or
\* the completion time, and no analysis row is added; only delete_scan
\* removes the row.
C29_TerminalRowIsFrozen ==
    [][(scan # NoRow /\ scan.status \in Terminal)
       => \/ scan' = scan /\ analyses' = analyses
          \/ scan' = NoRow]_vars

\* a failed scan whose control entry still holds a pause: run_scan has
\* returned and resume_scan accepts a request for it
C29_Witness ==
    /\ scan # NoRow
    /\ scan.status = "failed"
    /\ frame.pc = "done"
    /\ ControlAction(scan_control) = "pause"
    /\ analyses = <<>>

\* C30: a completed scan has exactly one analysis row for each finding that
\* fetch_all_vulnerabilities returned, so the number of its rows is
\* total_vulnerabilities and no fetched finding is without a row.
C30_CompletedHasOneRowPerFinding ==
    (scan # NoRow /\ scan.status = "completed")
        => /\ Len(analyses) = scan.total_vulnerabilities
           /\ \A i \in 1..Len(frame.issues) :
                  Cardinality(RowsOf(Get(frame.issues[i], "key", "unknown"))) = 1

=============================================================================
